---- MODULE Spec2Model ----
(***************************************************************************)
(* The incremental download-and-merge protocol of loone_data_prep:         *)
(* water_level_data/get_all.py main and water_quality_data/get_lake_wq.py  *)
(* main, with the get functions they call.  A CSV file is modelled by its  *)
(* rows (date, value), whether it carries the integer index column, and    *)
(* whether a write to it was cut short.  Dates are day numbers 1..MaxDate; *)
(* the value 0 stands for a missing value (NaN).                           *)
(***************************************************************************)
EXTENDS Integers, Sequences, FiniteSets, TLC

\* ------------------------------------------------------------------ bounds
MaxDate == 2
MaxFetch == 2
MaxRuns == 2
WqMaxDate == 4
WqMaxSyncs == 2

StatMax == 1
MaxBase == 2

\* the ensembles of a GEOGLOWS forecast without the high-resolution one
NumEnsembles == 51

\* get_forecast_flows: the constants of the unit conversions, and the values a
\* day of a forecast has
SECONDS_IN_HOUR == 3600
HOURS_IN_DAY == 24
SubDaily == 8

\* the calendar of the water-quality dates
FirstDay == 30
MonthLen == 31

NaN == 0
Vals == {NaN, 1}
Dates == 1..MaxDate
None == 0

\* the parameters of @retry on the get functions
tries == 5
delay == 15
max_delay == 60
backoff == 2

\* ------------------------------------------------------------ configuration
\* get_all.D restricted to the two "L OKEE" entries; get_lake_wq.D restricted
\* to one parameter with two stations.
WL_D == <<"LO_Stage", "LO_Stage_2">>
WQ_D == <<"L001", "L004">>
Modules == {"get_all", "get_lake_wq"}

\* get_outflows.DBKEYS restricted to two dbkeys
OUT_D == <<"91370", "91373">>

\* the one file of flow_data/S65E_total.get
S65E_D == <<"S65E_total">>

D(m) ==
    IF m = "get_all" THEN WL_D
    ELSE IF m = "get_lake_wq" THEN WQ_D
    ELSE IF m = "get_outflows" THEN OUT_D
    ELSE S65E_D

Range(s) == {s[k] : k \in 1..Len(s)}

\* dbkeys of a water-level dataset (LO_Stage is backed by several)
dbkeys(name) == IF name = "LO_Stage" THEN <<"16022", "12509">> ELSE <<"94832">>

\* ------------------------------------------------------------------- files
Row == [date : Dates, val : Vals]

Missing == [exists |-> FALSE, partial |-> FALSE, indexed |-> FALSE, rows |-> <<>>]

CsvFile(rows, indexed) ==
    [exists |-> TRUE, partial |-> FALSE, indexed |-> indexed, rows |-> rows]

\* a file whose write was interrupted
PartialFile == [exists |-> TRUE, partial |-> TRUE, indexed |-> FALSE, rows |-> <<>>]

DatesOf(rows) == {rows[k].date : k \in 1..Len(rows)}

MaxOf(S) == CHOOSE x \in S : \A y \in S : y <= x

StrictlyAscending(rows) ==
    \A k \in 1..(Len(rows) - 1) : rows[k].date < rows[k + 1].date

\* latest date present in a file (None when it has none)
LatestDate(f) ==
    IF f.exists /\ ~f.partial /\ f.rows # <<>> THEN MaxOf(DatesOf(f.rows)) ELSE None

\* utils.find_last_date_in_csv: the maximum of the date column, None when the
\* file does not exist or cannot be read
find_last_date_in_csv(f) == LatestDate(f)

\* ---------------------------------------------------------- remote responses
\* What a remote query can hold: at most MaxFetch rows, one per date.
Responses ==
    {S \in SUBSET Row :
        /\ Cardinality(S) <= MaxFetch
        /\ \A a, b \in S : a.date = b.date => a = b}

\* pivot(index='datetime') in hydro.get and sort_values in wq.get: the rows
\* ordered by date
RECURSIVE SortByDate(_)
SortByDate(S) ==
    IF S = {} THEN <<>>
    ELSE LET r == CHOOSE x \in S : \A y \in S : x.date <= y.date
         IN  <<r>> \o SortByDate(S \ {r})

\* water_level_data/hydro.get on a response: the file it writes (index=False)
hydro_get(resp) == CsvFile(SortByDate(resp), FALSE)

\* variant of wq_get that writes the file of an empty response too
wq_get_writes_empty(resp, old) == CsvFile(SortByDate(resp), TRUE)

\* water_quality_data/wq.get on a response for one station: the file it leaves,
\* given the file that was there (an empty response writes nothing)
wq_get(resp, old) == IF resp = {} THEN old ELSE CsvFile(SortByDate(resp), TRUE)

\* pd.merge(..., on='date', how='outer') of the two series of S65E_total.get:
\* one row per date of either, with the value of each series (NaN: none)
outer_merge(s65e_s, s65ex1_s) ==
    {[date |-> dt,
      val |-> <<IF \E r \in s65e_s : r.date = dt
                THEN (CHOOSE r \in s65e_s : r.date = dt).val ELSE NaN,
                IF \E r \in s65ex1_s : r.date = dt
                THEN (CHOOSE r \in s65ex1_s : r.date = dt).val ELSE NaN>>] :
        dt \in {r.date : r \in s65e_s \cup s65ex1_s}}

\* flow_data/S65E_total.get on the responses for its two series: the file it
\* leaves, given the one that was there (it returns when either has no data)
s65e_total_get(s65e_s, s65ex1_s, old) ==
    IF s65e_s = {} \/ s65ex1_s = {} THEN old
    ELSE CsvFile(SortByDate(outer_merge(s65e_s, s65ex1_s)), TRUE)

\* whether the get writes a file at all
Writes(m, resp) == m = "get_all" \/ resp # {}

get(m, resp, old) == IF m = "get_all" THEN hydro_get(resp) ELSE wq_get(resp, old)

\* ------------------------------------------------------------------- merge
\* variants of the concatenation: in the wrong order, keeping only the new rows,
\* and dropping the original rows whose date comes again in the new rows
df_merged_new_first(df_original, df_new) == df_new \o df_original

df_merged_new_only(df_original, df_new) == df_new

df_merged_keep_last(df_original, df_new) ==
    SelectSeq(df_original, LAMBDA r : r.date \notin DatesOf(df_new)) \o df_new

\* pd.concat([df_original, df_new]) followed by to_csv with the integer index
df_merged(df_original, df_new) == df_original \o df_new

MergedFile(original, new) == CsvFile(df_merged(original.rows, new.rows), TRUE)

\* variant of the loop that asks about the first dbkey only
requires_data_download_first(a, k) ==
    IF a[1] = "newer" THEN "download"
    ELSE IF a[1] = "raises" THEN "raise"
    ELSE "skip"

\* lines 38-42 of get_all.main: the answers of dbhydro_data_is_latest for the
\* dbkeys in order, up to the first one that is not latest (break) or raises
RECURSIVE requires_data_download(_, _)
requires_data_download(ans, k) ==
    IF k > Len(ans) THEN "skip"
    ELSE IF ans[k] = "newer" THEN "download"
    ELSE IF ans[k] = "raises" THEN "raise"
    ELSE requires_data_download(ans, k + 1)

Answers(m, name) ==
    [1..(IF m = "get_all" THEN Len(dbkeys(name)) ELSE 1) -> {"latest", "newer", "raises"}]

\* variant of the except block that removes the new file and leaves the
\* temporary file under its temporary name
RestoredFileLosesOld(file, tmp) == Missing

\* variant of the except block that does not remove the new file first
RestoredFileKeepsNew(file, tmp) == IF file.exists THEN file ELSE tmp

\* the except block: remove the new file if it exists, then rename the
\* temporary file back if it exists; the file left under the original name
RestoredFile(file, tmp) == IF tmp.exists THEN tmp ELSE Missing

\* ------------------------------------------------------------------- state
VARIABLES
    module,            \* which main is running
    d,                 \* the d argument of main: the datasets to sync, in order
    run,               \* number of the current call of main
    pc,                \* position in main
    i,                 \* index of the dataset the for loop is at
    files,             \* workspace: dataset -> file under its original name
    temp,              \* workspace: dataset -> file under its temporary (uuid) name
    date_latest,       \* dataset -> latest date read from its file (None = 0)
    failed_downloads,  \* list of datasets whose update failed
    missing_files,     \* list of datasets whose file is missing
    convert_failure,   \* get_all.main's flag
    result,            \* value returned by main
    cur,               \* the dataset whose sync started last in this call
    pre,               \* the file of cur when its sync started
    df_new,            \* the rows the incremental get wrote for cur
    failedAt,          \* the step of the sync of cur that raised
    prev,              \* how the previous call of main ended
    runStart,          \* the workspace when the current call started
    outcome,           \* dataset -> what this call did with it
    touched,           \* dataset -> its file was written, renamed or deleted in this call
    noNew,             \* the remote has shown no new data so far in this call
    fetched,           \* what the get called for cur returned: "none", "empty" or "rows"
    request,           \* date_min and date_max of the get called for cur
    steps,             \* the steps of the sync of cur that were done, in order
    ans,               \* the answers the up-to-date check of cur got, dbkey by dbkey
    printed,           \* dataset -> what main has printed about it in this call
    _tries,            \* retry: attempts the current get call has left
    _delay,            \* retry: seconds the current get call sleeps after the next raise
    attempts,          \* attempts the current get call has made
    params,            \* get_all.D: dataset -> the date_max of its entry (None: no such key)
    DBKEYS,            \* get_outflows.DBKEYS, the module-level list
    main_dbkeys,       \* get_outflows.main: the list its parameter dbkeys is bound to
    requested,         \* the datasets the current call of main was asked for
    flow_files,        \* workspace: dbkey -> the flow file named with the dbkey
    lokee,             \* the two stage files as the "L OKEE" step found them
    wq_file,           \* a water-quality file with all its columns: its rows in order
    wq_syncs,          \* the incremental syncs that have merged into wq_file
    wq_earlier,        \* an incremental get returned a row dated before the file's first
    slept,             \* the seconds retry has slept between the attempts of the current get
    stats,             \* _format_stats_DataFrame: the flow_avg values of a day, and its result
    netflows           \* GEOGLOWS_NETFLOWS.main: its argument, the inflow files, and its result

vars == <<module, d, cur, df_new, failedAt, prev, run, pc, i, files, temp, date_latest, failed_downloads,
          missing_files, convert_failure, result, pre, runStart, outcome,
          touched, noNew, fetched, request, steps, ans, printed, _tries, _delay, attempts,
          params, DBKEYS, main_dbkeys, requested, flow_files, lokee,
          wq_file, wq_syncs, wq_earlier, slept, stats,
          netflows>>

AllNames == Range(D(module))
Names == Range(d)
name == d[i]

\* variant of tries_left that does not count the attempt
tries_left_same(t) == t

\* retry: an attempt raised, one attempt less is left
tries_left(t) == t - 1

\* variant of next_delay without the cap
next_delay_uncapped(dl) == dl * backoff

\* retry: the delay is multiplied by backoff after each sleep, up to max_delay
next_delay(dl) == IF dl * backoff > max_delay THEN max_delay ELSE dl * backoff

\* no get has been called
NoRequest == [date_min |-> None, date_max |-> None]

\* today, as the modules compute it when they are imported
DATE_NOW == MaxDate

\* the first date a full fetch asks for: the date_min of the dataset's entry in
\* get_all.D when it has one ("2024-04-30" for LO_Stage_2), else the default
\* of the get function ("1950-01-01")
date_min_of(n) == IF n = "LO_Stage_2" THEN 2 ELSE 1

\* variant of FullRequest that leaves date_max unset
FullRequestNoMax(n) == [date_min |-> date_min_of(n), date_max |-> None]

\* the request of the first-time get (get_all line 34-35, get_lake_wq line 134)
FullRequest(n) == [date_min |-> date_min_of(n), date_max |-> DATE_NOW]

\* variant of date_next that asks for the latest date again
date_next_same(latest) == latest

\* the request of the incremental get: from the day after the latest date
\* (get_all line 57-62, get_lake_wq line 150-151)
date_next(latest) == latest + 1

IncrementalRequest(latest) == [date_min |-> date_next(latest), date_max |-> DATE_NOW]

Fetched(resp) == IF resp = {} THEN "empty" ELSE "rows"

\* the "L OKEE" step has not run: the two stage files as the step found them,
\* and whether it read them
NoLOkee == [read |-> FALSE, lo |-> Missing, lo2 |-> Missing]

NoResult == [kind |-> "none", names |-> {}, convert |-> FALSE]

\* files a workspace can hold before the first call: written by an earlier
\* first-time get, so sorted by date with one row per date
InitRows == {SortByDate(S) : S \in {T \in Responses : T # {} /\ \A r \in T : r.date < MaxDate}}

InitFiles(m) == {Missing} \cup {CsvFile(rows, m # "get_all") : rows \in InitRows}

\* the d arguments main is called with: the whole table, or its first entry
Args(m) == {D(m), SubSeq(D(m), 1, 1)}

StartPc(m) ==
    IF m = "get_all" THEN "loop"
    ELSE IF m = "get_lake_wq" THEN "latest"
    ELSE IF m = "get_outflows" THEN "oloop"
    ELSE "sget"

\* the list the parameter dbkeys of get_outflows.main is bound to: DBKEYS itself
\* when main is called without it, else the list of the caller
ByDefault == d = D(module)

\* no water-quality file is followed column by column
NoWqFile ==
    /\ wq_file = <<>>
    /\ wq_syncs = 0
    /\ wq_earlier = FALSE

\* no forecast statistics are being formatted
NoStats == stats = [flow_avg |-> <<>>, formatted |-> FALSE, result |-> 0]

\* GEOGLOWS_NETFLOWS.main has not been called
NoNetflows ==
    netflows = [ensemble_number |-> <<>>, with_stats |-> FALSE, base |-> <<>>,
                written |-> FALSE, Netflows |-> 0]

\* the state of the DBHYDRO modules when main of one of the modules ms is
\* called on a workspace
InitMain(ms) ==
    /\ module \in ms
    /\ run = 1
    /\ pc = StartPc(module)
    /\ i = 1
    /\ d \in Args(module)
    /\ files \in [Range(D(module)) -> InitFiles(module)]
    /\ temp = [n \in Range(D(module)) |-> Missing]
    /\ date_latest = [n \in Range(D(module)) |-> None]
    /\ cur = ""
    /\ df_new = <<>>
    /\ failedAt = "none"
    /\ prev = [pc |-> "none", convert_failure |-> FALSE]
    /\ failed_downloads = <<>>
    /\ missing_files = <<>>
    /\ convert_failure = FALSE
    /\ result = NoResult
    /\ pre = Missing
    /\ runStart = files
    /\ outcome = [n \in Range(D(module)) |-> "none"]
    /\ touched = [n \in Range(D(module)) |-> FALSE]
    /\ noNew = TRUE
    /\ fetched = "none"
    /\ request = NoRequest
    /\ steps = <<>>
    /\ ans = <<>>
    /\ printed = [n \in Range(D(module)) |-> {}]
    /\ _tries = tries
    /\ _delay = delay
    /\ slept = <<>>
    /\ attempts = 0
    /\ params = [n \in Range(D(module)) |-> None]
    /\ DBKEYS = OUT_D
    /\ main_dbkeys = d
    /\ requested = d
    /\ lokee = NoLOkee
    /\ flow_files \in [Range(D(module)) ->
                         IF module = "get_outflows" THEN InitFiles(module) ELSE {Missing}]

\* the state when main of one of the modules ms is called on a workspace
InitCall(ms) ==
    /\ InitMain(ms)
    /\ NoWqFile
    /\ NoStats
    /\ NoNetflows

\* no main of the DBHYDRO modules is running, on an empty workspace
Idle ==
    /\ InitMain({"get_all"})
    /\ d = D(module)
    /\ \A n \in Range(D(module)) : files[n] = Missing

Init == InitCall(Modules)

\* where main goes after a dataset's branch: get_all checks the file exists
\* (line 95), get_lake_wq goes on to the next station
AfterSync(m) == IF m = "get_all" THEN "exists" ELSE "loop"
NextIndex(m, k) == IF m = "get_all" THEN k ELSE k + 1

\* get_lake_wq.main lines 121-123: the latest date of every station's file
ReadLatestDates ==
    /\ pc = "latest"
    /\ date_latest' = [n \in AllNames |->
                          IF n \in Names THEN find_last_date_in_csv(files[n]) ELSE None]
    /\ pc' = "loop"
    /\ UNCHANGED <<module, d, cur, df_new, failedAt, prev, run, i, files, temp,
                   failed_downloads, missing_files, convert_failure, result, pre,
                   runStart, outcome, touched, noNew, fetched, request, steps, ans,
                   printed, _tries, _delay, attempts, params, DBKEYS, main_dbkeys,
                   requested, flow_files, lokee, wq_file, wq_syncs, wq_earlier, slept,
                   stats, netflows>>

\* head of the for loop (get_all line 27-32, get_lake_wq line 126-131)
LoopNext ==
    /\ pc = "loop"
    /\ i <= Len(d)
    /\ LET dl == IF module = "get_all" THEN find_last_date_in_csv(files[name])
                 ELSE date_latest[name]
       IN  /\ date_latest' = [date_latest EXCEPT ![name] = dl]
           /\ pc' = IF dl = None THEN "full" ELSE "check"
    /\ cur' = name
    /\ pre' = files[name]
    /\ df_new' = <<>>
    /\ failedAt' = "none"
    /\ fetched' = "none"
    /\ request' = NoRequest
    /\ steps' = <<>>
    /\ ans' = <<>>
    /\ _tries' = tries
    /\ _delay' = delay
    /\ slept' = <<>>
    /\ attempts' = 0
    /\ UNCHANGED <<module, d, prev, run, i, files, temp, failed_downloads, missing_files,
                   convert_failure, result, runStart, outcome, touched, noNew, printed,
                   params, DBKEYS, main_dbkeys, requested, flow_files, lokee, wq_file,
                   wq_syncs, wq_earlier, stats, netflows>>

\* the for loop is over
LoopExit ==
    /\ pc = "loop"
    /\ i > Len(d)
    /\ pc' = IF module = "get_all" THEN "lokee" ELSE "missing"
    /\ UNCHANGED <<module, d, cur, df_new, failedAt, prev, run, i, files, temp,
                   date_latest, failed_downloads, missing_files, convert_failure, result,
                   pre, runStart, outcome, touched, noNew, fetched, request, steps, ans,
                   printed, _tries, _delay, attempts, params, DBKEYS, main_dbkeys,
                   requested, flow_files, lokee, wq_file, wq_syncs, wq_earlier, slept,
                   stats, netflows>>

\* an attempt of the get raises and attempts are left: retry sleeps _delay
\* seconds and calls the get again
GetAttemptRaises ==
    /\ pc \in {"full", "fetch", "oget", "sget"}
    /\ _tries > 1
    /\ attempts <= tries
    /\ _tries' = tries_left(_tries)
    /\ slept' = Append(slept, _delay)
    /\ _delay' = next_delay(_delay)
    /\ attempts' = attempts + 1
    /\ UNCHANGED <<module, d, cur, df_new, failedAt, prev, run, pc, i, files, temp,
                   date_latest, failed_downloads, missing_files, convert_failure, result,
                   pre, runStart, outcome, touched, noNew, fetched, request, steps, ans,
                   printed, params, DBKEYS, main_dbkeys, requested, flow_files, lokee,
                   wq_file, wq_syncs, wq_earlier, stats, netflows>>

\* first-time get returns (get_all line 35, get_lake_wq line 134)
FullGet ==
    /\ pc = "full"
    /\ params' = IF module = "get_all" THEN [params EXCEPT ![name] = DATE_NOW] ELSE params
    /\ _tries >= 1
    /\ attempts' = attempts + 1
    /\ steps' = Append(steps, "full")
    /\ \E resp \in Responses :
        /\ files' = [files EXCEPT ![name] = get(module, resp, files[name])]
        /\ touched' = [touched EXCEPT ![name] = @ \/ Writes(module, resp)]
        /\ outcome' = [outcome EXCEPT ![name] =
                          IF Writes(module, resp) THEN "created" ELSE "nodata"]
        /\ noNew' = (noNew /\ ~Writes(module, resp))
        /\ fetched' = Fetched(resp)
    /\ request' = FullRequest(name)
    /\ pc' = AfterSync(module)
    /\ i' = NextIndex(module, i)
    /\ UNCHANGED <<module, d, cur, df_new, failedAt, prev, run, temp, date_latest,
                   failed_downloads, missing_files, convert_failure, result, pre,
                   runStart, ans, printed, _tries, _delay, DBKEYS, main_dbkeys,
                   requested, flow_files, lokee, wq_file, wq_syncs, wq_earlier, slept,
                   stats, netflows>>

\* first-time get raises after its retries, with or without a cut-short file;
\* the exception leaves main
FullGetRaises ==
    /\ pc = "full"
    /\ params' = IF module = "get_all" THEN [params EXCEPT ![name] = DATE_NOW] ELSE params
    /\ _tries = 1
    /\ _tries' = tries_left(_tries)
    /\ attempts' = attempts + 1
    /\ \E left \in {files[name], PartialFile} :
        /\ files' = [files EXCEPT ![name] = left]
        /\ touched' = [touched EXCEPT ![name] = @ \/ left # files[name]]
    /\ outcome' = [outcome EXCEPT ![name] = "raised"]
    /\ failedAt' = "full"
    /\ request' = FullRequest(name)
    /\ pc' = "raised"
    /\ noNew' = FALSE
    /\ UNCHANGED <<module, d, cur, df_new, prev, run, i, temp, date_latest,
                   failed_downloads, missing_files, convert_failure, result, pre,
                   runStart, fetched, steps, ans, printed, _delay, DBKEYS, main_dbkeys,
                   requested, flow_files, lokee, wq_file, wq_syncs, wq_earlier, slept,
                   stats, netflows>>

\* variant of Skip in which the file is read and written back with the integer
\* index, as the merge writes it
SkipRewrites ==
    /\ pc = "check"
    /\ printed' = [printed EXCEPT ![name] = @ \cup {"skipped"}]
    /\ \E a \in Answers(module, name) :
        /\ requires_data_download(a, 1) = "skip"
        /\ ans' = a
    /\ steps' = Append(steps, "check")
    /\ files' = [files EXCEPT ![name] = CsvFile(files[name].rows, ~files[name].indexed)]
    /\ outcome' = [outcome EXCEPT ![name] = "skipped"]
    /\ i' = i + 1
    /\ pc' = "loop"
    /\ UNCHANGED <<module, d, cur, df_new, failedAt, prev, run, temp, date_latest,
                   failed_downloads, missing_files, convert_failure, result, pre,
                   runStart, touched, noNew, fetched, request, _tries, _delay, attempts,
                   params, DBKEYS, main_dbkeys, requested, flow_files, lokee, wq_file,
                   wq_syncs, wq_earlier, slept, stats, netflows>>

\* variant of Skip in which the file was renamed before the up-to-date check
SkipAfterRename ==
    /\ pc = "check"
    /\ printed' = [printed EXCEPT ![name] = @ \cup {"skipped"}]
    /\ \E a \in Answers(module, name) :
        /\ requires_data_download(a, 1) = "skip"
        /\ ans' = a
    /\ steps' = Append(steps, "check")
    /\ temp' = [temp EXCEPT ![name] = files[name]]
    /\ files' = [files EXCEPT ![name] = Missing]
    /\ touched' = [touched EXCEPT ![name] = TRUE]
    /\ outcome' = [outcome EXCEPT ![name] = "skipped"]
    /\ i' = i + 1
    /\ pc' = "loop"
    /\ UNCHANGED <<module, d, cur, df_new, failedAt, prev, run, date_latest,
                   failed_downloads, missing_files, convert_failure, result, pre,
                   runStart, noNew, fetched, request, _tries, _delay, attempts, params,
                   DBKEYS, main_dbkeys, requested, flow_files, lokee, wq_file, wq_syncs,
                   wq_earlier, slept, stats, netflows>>

\* the up-to-date check finds nothing newer: continue (get_all line 45-48,
\* get_lake_wq line 137-140)
Skip ==
    /\ pc = "check"
    /\ printed' = [printed EXCEPT ![name] = @ \cup {"skipped"}]
    /\ \E a \in Answers(module, name) :
        /\ requires_data_download(a, 1) = "skip"
        /\ ans' = a
    /\ steps' = Append(steps, "check")
    /\ outcome' = [outcome EXCEPT ![name] = "skipped"]
    /\ i' = i + 1
    /\ pc' = "loop"
    /\ UNCHANGED <<module, d, cur, df_new, failedAt, prev, run, files, temp, date_latest,
                   failed_downloads, missing_files, convert_failure, result, pre,
                   runStart, touched, noNew, fetched, request, _tries, _delay, attempts,
                   params, DBKEYS, main_dbkeys, requested, flow_files, lokee, wq_file,
                   wq_syncs, wq_earlier, slept, stats, netflows>>

\* the up-to-date check finds newer data
NeedsDownload ==
    /\ pc = "check"
    /\ \E a \in Answers(module, name) :
        /\ requires_data_download(a, 1) = "download"
        /\ ans' = a
    /\ steps' = Append(steps, "check")
    /\ pc' = "rename"
    /\ noNew' = FALSE
    /\ UNCHANGED <<module, d, cur, df_new, failedAt, prev, run, i, files, temp,
                   date_latest, failed_downloads, missing_files, convert_failure, result,
                   pre, runStart, outcome, touched, fetched, request, printed, _tries,
                   _delay, attempts, params, DBKEYS, main_dbkeys, requested, flow_files,
                   lokee, wq_file, wq_syncs, wq_earlier, slept, stats, netflows>>

\* the up-to-date check raises; nothing in main catches it
CheckRaises ==
    /\ pc = "check"
    /\ \E a \in Answers(module, name) :
        /\ requires_data_download(a, 1) = "raise"
        /\ ans' = a
    /\ steps' = Append(steps, "check")
    /\ outcome' = [outcome EXCEPT ![name] = "raised"]
    /\ failedAt' = "check"
    /\ pc' = "raised"
    /\ noNew' = FALSE
    /\ UNCHANGED <<module, d, cur, df_new, prev, run, i, files, temp, date_latest,
                   failed_downloads, missing_files, convert_failure, result, pre,
                   runStart, touched, fetched, request, printed, _tries, _delay,
                   attempts, params, DBKEYS, main_dbkeys, requested, flow_files, lokee,
                   wq_file, wq_syncs, wq_earlier, slept, stats, netflows>>

\* os.rename of the file to its temporary name (get_all line 53, get_lake_wq 145)
Rename ==
    /\ pc = "rename"
    /\ steps' = Append(steps, "rename")
    /\ temp' = [temp EXCEPT ![name] = files[name]]
    /\ files' = [files EXCEPT ![name] = Missing]
    /\ touched' = [touched EXCEPT ![name] = TRUE]
    /\ pc' = "fetch"
    /\ UNCHANGED <<module, d, cur, df_new, failedAt, prev, run, i, date_latest,
                   failed_downloads, missing_files, convert_failure, result, pre,
                   runStart, outcome, noNew, fetched, request, ans, printed, _tries,
                   _delay, attempts, params, DBKEYS, main_dbkeys, requested, flow_files,
                   lokee, wq_file, wq_syncs, wq_earlier, slept, stats, netflows>>

\* os.rename raises; it is outside the try block
RenameRaises ==
    /\ pc = "rename"
    /\ outcome' = [outcome EXCEPT ![name] = "raised"]
    /\ failedAt' = "rename"
    /\ pc' = "raised"
    /\ UNCHANGED <<module, d, cur, df_new, prev, run, i, files, temp, date_latest,
                   failed_downloads, missing_files, convert_failure, result, pre,
                   runStart, touched, noNew, fetched, request, steps, ans, printed,
                   _tries, _delay, attempts, params, DBKEYS, main_dbkeys, requested,
                   flow_files, lokee, wq_file, wq_syncs, wq_earlier, slept, stats,
                   netflows>>

\* the incremental get returns (get_all line 62, get_lake_wq line 151-155);
\* get_lake_wq raises when the get left no file
IncrementalGet ==
    /\ pc = "fetch"
    /\ _tries >= 1
    /\ attempts' = attempts + 1
    /\ steps' = Append(steps, "fetch")
    /\ \E resp \in Responses :
        LET f == get(module, resp, files[name])
        IN  /\ files' = [files EXCEPT ![name] = f]
            /\ df_new' = f.rows
            /\ failedAt' = IF f.exists THEN failedAt ELSE "fetch"
            /\ pc' = IF f.exists THEN "merge" ELSE "except"
            /\ fetched' = Fetched(resp)
    /\ request' = IncrementalRequest(date_latest[name])
    /\ UNCHANGED <<module, d, cur, prev, run, i, temp, date_latest, failed_downloads,
                   missing_files, convert_failure, result, pre, runStart, outcome,
                   touched, noNew, ans, printed, _tries, _delay, params, DBKEYS,
                   main_dbkeys, requested, flow_files, lokee, wq_file, wq_syncs,
                   wq_earlier, slept, stats, netflows>>

\* the incremental get raises after its retries, with or without a cut-short file
IncrementalGetRaises ==
    /\ pc = "fetch"
    /\ _tries = 1
    /\ _tries' = tries_left(_tries)
    /\ attempts' = attempts + 1
    /\ \E left \in {Missing, PartialFile} : files' = [files EXCEPT ![name] = left]
    /\ failedAt' = "fetch"
    /\ request' = IncrementalRequest(date_latest[name])
    /\ pc' = "except"
    /\ UNCHANGED <<module, d, cur, df_new, prev, run, i, temp, date_latest,
                   failed_downloads, missing_files, convert_failure, result, pre,
                   runStart, outcome, touched, noNew, fetched, steps, ans, printed,
                   _delay, params, DBKEYS, main_dbkeys, requested, flow_files, lokee,
                   wq_file, wq_syncs, wq_earlier, slept, stats, netflows>>

\* variant of Merge that removes the temporary file once it is read, before the
\* merged file is written
MergeRemovesTemp ==
    /\ pc = "merge"
    /\ steps' = Append(steps, "merge")
    /\ temp' = [temp EXCEPT ![name] = Missing]
    /\ files' = [files EXCEPT ![name] = MergedFile(temp[name], files[name])]
    /\ pc' = "remove"
    /\ UNCHANGED <<module, d, cur, df_new, failedAt, prev, run, i, date_latest,
                   failed_downloads, missing_files, convert_failure, result, pre,
                   runStart, outcome, touched, noNew, fetched, request, ans, printed,
                   _tries, _delay, attempts, params, DBKEYS, main_dbkeys, requested,
                   flow_files, lokee, wq_file, wq_syncs, wq_earlier, slept, stats,
                   netflows>>

\* read both files, concatenate, write the merged file (get_all line 65-76,
\* get_lake_wq line 158-184)
Merge ==
    /\ pc = "merge"
    /\ steps' = Append(steps, "merge")
    /\ files' = [files EXCEPT ![name] = MergedFile(temp[name], files[name])]
    /\ pc' = "remove"
    /\ UNCHANGED <<module, d, cur, df_new, failedAt, prev, run, i, temp, date_latest,
                   failed_downloads, missing_files, convert_failure, result, pre,
                   runStart, outcome, touched, noNew, fetched, request, ans, printed,
                   _tries, _delay, attempts, params, DBKEYS, main_dbkeys, requested,
                   flow_files, lokee, wq_file, wq_syncs, wq_earlier, slept, stats,
                   netflows>>

\* reading or concatenating raises (the new file is intact) or the write of the
\* merged file is cut short
MergeRaises ==
    /\ pc = "merge"
    /\ \E left \in {files[name], PartialFile} : files' = [files EXCEPT ![name] = left]
    /\ failedAt' = "merge"
    /\ pc' = "except"
    /\ UNCHANGED <<module, d, cur, df_new, prev, run, i, temp, date_latest,
                   failed_downloads, missing_files, convert_failure, result, pre,
                   runStart, outcome, touched, noNew, fetched, request, steps, ans,
                   printed, _tries, _delay, attempts, params, DBKEYS, main_dbkeys,
                   requested, flow_files, lokee, wq_file, wq_syncs, wq_earlier, slept,
                   stats, netflows>>

\* os.remove of the temporary file (get_all line 79, get_lake_wq line 187)
RemoveTemp ==
    /\ pc = "remove"
    /\ steps' = Append(steps, "remove")
    /\ temp' = [temp EXCEPT ![name] = Missing]
    /\ outcome' = [outcome EXCEPT ![name] = "updated"]
    /\ pc' = AfterSync(module)
    /\ i' = NextIndex(module, i)
    /\ UNCHANGED <<module, d, cur, df_new, failedAt, prev, run, files, date_latest,
                   failed_downloads, missing_files, convert_failure, result, pre,
                   runStart, touched, noNew, fetched, request, ans, printed, _tries,
                   _delay, attempts, params, DBKEYS, main_dbkeys, requested, flow_files,
                   lokee, wq_file, wq_syncs, wq_earlier, slept, stats, netflows>>

\* os.remove raises inside the try block
RemoveTempRaises ==
    /\ pc = "remove"
    /\ failedAt' = "remove"
    /\ pc' = "except"
    /\ UNCHANGED <<module, d, cur, df_new, prev, run, i, files, temp, date_latest,
                   failed_downloads, missing_files, convert_failure, result, pre,
                   runStart, outcome, touched, noNew, fetched, request, steps, ans,
                   printed, _tries, _delay, attempts, params, DBKEYS, main_dbkeys,
                   requested, flow_files, lokee, wq_file, wq_syncs, wq_earlier, slept,
                   stats, netflows>>

\* variant of Except that copies the temporary file back and leaves it there
ExceptLeavesTemp ==
    /\ pc = "except"
    /\ printed' = [printed EXCEPT ![name] = @ \cup {"error"}]
    /\ steps' = Append(steps, "restore")
    /\ files' = [files EXCEPT ![name] = RestoredFile(files[name], temp[name])]
    /\ failed_downloads' = Append(failed_downloads, name)
    /\ outcome' = [outcome EXCEPT ![name] = "failed"]
    /\ pc' = AfterSync(module)
    /\ i' = NextIndex(module, i)
    /\ UNCHANGED <<module, d, cur, df_new, failedAt, prev, run, temp, date_latest,
                   missing_files, convert_failure, result, pre, runStart, touched, noNew,
                   fetched, request, ans, _tries, _delay, attempts, params, DBKEYS,
                   main_dbkeys, requested, flow_files, lokee, wq_file, wq_syncs,
                   wq_earlier, slept, stats, netflows>>

\* the except block (get_all line 80-93, get_lake_wq line 188-202)
Except ==
    /\ pc = "except"
    /\ printed' = [printed EXCEPT ![name] = @ \cup {"error"}]
    /\ steps' = Append(steps, "restore")
    /\ files' = [files EXCEPT ![name] = RestoredFile(files[name], temp[name])]
    /\ temp' = [temp EXCEPT ![name] = Missing]
    /\ failed_downloads' = Append(failed_downloads, name)
    /\ outcome' = [outcome EXCEPT ![name] = "failed"]
    /\ pc' = AfterSync(module)
    /\ i' = NextIndex(module, i)
    /\ UNCHANGED <<module, d, cur, df_new, failedAt, prev, run, date_latest,
                   missing_files, convert_failure, result, pre, runStart, touched, noNew,
                   fetched, request, ans, _tries, _delay, attempts, params, DBKEYS,
                   main_dbkeys, requested, flow_files, lokee, wq_file, wq_syncs,
                   wq_earlier, slept, stats, netflows>>

\* get_all line 95-99: the file exists, or it is added to missing_files
Exists ==
    /\ pc = "exists"
    /\ printed' = [printed EXCEPT ![name] =
                       @ \cup {IF files[name].exists THEN "downloaded" ELSE "missing"}]
    /\ missing_files' = IF files[name].exists THEN missing_files
                        ELSE Append(missing_files, name)
    /\ i' = i + 1
    /\ pc' = "loop"
    /\ UNCHANGED <<module, d, cur, df_new, failedAt, prev, run, files, temp, date_latest,
                   failed_downloads, convert_failure, result, pre, runStart, outcome,
                   touched, noNew, fetched, request, steps, ans, _tries, _delay,
                   attempts, params, DBKEYS, main_dbkeys, requested, flow_files, lokee,
                   wq_file, wq_syncs, wq_earlier, slept, stats, netflows>>

\* get_lake_wq line 205-208: every station whose file does not exist
RECURSIVE MissingOf(_, _, _)
MissingOf(ds, fs, k) ==
    IF k > Len(ds) THEN <<>>
    ELSE (IF fs[ds[k]].exists THEN <<>> ELSE <<ds[k]>>) \o MissingOf(ds, fs, k + 1)

CheckMissing ==
    /\ pc = "missing"
    /\ printed' = [n \in AllNames |->
                       printed[n] \cup (IF n \in Range(MissingOf(d, files, 1))
                                        THEN {"missing"} ELSE {})]
    /\ missing_files' = missing_files \o MissingOf(d, files, 1)
    /\ pc' = "return"
    /\ UNCHANGED <<module, d, cur, df_new, failedAt, prev, run, i, files, temp,
                   date_latest, failed_downloads, convert_failure, result, pre, runStart,
                   outcome, touched, noNew, fetched, request, steps, ans, _tries, _delay,
                   attempts, params, DBKEYS, main_dbkeys, requested, flow_files, lokee,
                   wq_file, wq_syncs, wq_earlier, slept, stats, netflows>>

\* ------------------------------------------------- the "L OKEE" merge step
Occurrences(rows, date) == Cardinality({k \in 1..Len(rows) : rows[k].date = date})

ValueAt(rows, date) == rows[CHOOSE k \in 1..Len(rows) : rows[k].date = date].val

common_dates(lo, lo2) == DatesOf(lo.rows) \cap DatesOf(lo2.rows)

\* line 125-130: dates of both files where LO_Stage has no value and LO_Stage_2 has one
missing_dates(lo, lo2) ==
    {dt \in common_dates(lo, lo2) : ValueAt(lo.rows, dt) = NaN /\ ValueAt(lo2.rows, dt) # NaN}

\* the two frames can be compared: both hold the stage column, and no common
\* date labels two rows of a file (pandas raises on such an alignment)
Comparable(lo, lo2) ==
    /\ lo.rows # <<>> /\ lo2.rows # <<>>
    /\ \A dt \in common_dates(lo, lo2) :
          Occurrences(lo.rows, dt) = 1 /\ Occurrences(lo2.rows, dt) = 1

\* _convert_navd88_to_ngvd29: the NGVD29 stage of a NAVD88 stage differs from it
\* by the datum shift at the station
_convert_navd88_to_ngvd29(stage) == IF stage = NaN THEN stage ELSE stage + 1

\* variant of Filled that takes the LO_Stage_2 value on every common date
FilledOverwrites(lo, lo2) ==
    [k \in 1..Len(lo.rows) |->
        IF lo.rows[k].date \in common_dates(lo, lo2)
        THEN [lo.rows[k] EXCEPT !.val =
                 _convert_navd88_to_ngvd29(ValueAt(lo2.rows, lo.rows[k].date))]
        ELSE lo.rows[k]]

\* line 148-149: the LO_Stage rows with the converted values put in
Filled(lo, lo2) ==
    [k \in 1..Len(lo.rows) |->
        IF lo.rows[k].date \in missing_dates(lo, lo2)
        THEN [lo.rows[k] EXCEPT !.val =
                 _convert_navd88_to_ngvd29(ValueAt(lo2.rows, lo.rows[k].date))]
        ELSE lo.rows[k]]

BothExist == files["LO_Stage"].exists /\ files["LO_Stage_2"].exists

\* get_all line 103-159: every conversion succeeds and LO_Stage.csv is rewritten
LOkeeMerge ==
    /\ pc = "lokee"
    /\ lokee' = [read |-> TRUE, lo |-> files["LO_Stage"], lo2 |-> files["LO_Stage_2"]]
    /\ BothExist
    /\ Comparable(files["LO_Stage"], files["LO_Stage_2"])
    /\ files' = [files EXCEPT !["LO_Stage"] =
                    CsvFile(Filled(files["LO_Stage"], files["LO_Stage_2"]), TRUE)]
    /\ touched' = [touched EXCEPT !["LO_Stage"] = TRUE]
    /\ pc' = "return"
    /\ UNCHANGED <<module, d, cur, df_new, failedAt, prev, run, i, temp, date_latest,
                   failed_downloads, missing_files, convert_failure, result, pre,
                   runStart, outcome, noNew, fetched, request, steps, ans, printed,
                   _tries, _delay, attempts, params, DBKEYS, main_dbkeys, requested,
                   flow_files, wq_file, wq_syncs, wq_earlier, slept, stats, netflows>>

\* variant of LOkeeConvertFails that saves the values converted before the failure
LOkeeConvertFailsPartial ==
    /\ pc = "lokee"
    /\ lokee' = [read |-> TRUE, lo |-> files["LO_Stage"], lo2 |-> files["LO_Stage_2"]]
    /\ BothExist
    /\ Comparable(files["LO_Stage"], files["LO_Stage_2"])
    /\ missing_dates(files["LO_Stage"], files["LO_Stage_2"]) # {}
    /\ \E failed \in missing_dates(files["LO_Stage"], files["LO_Stage_2"]) :
          files' = [files EXCEPT !["LO_Stage"] =
                       CsvFile([k \in 1..Len(@.rows) |->
                                   IF @.rows[k].date = failed
                                   THEN @.rows[k]
                                   ELSE Filled(@, files["LO_Stage_2"])[k]], TRUE)]
    /\ convert_failure' = TRUE
    /\ pc' = "return"
    /\ UNCHANGED <<module, d, cur, df_new, failedAt, prev, run, i, temp, date_latest,
                   failed_downloads, missing_files, result, pre, runStart, outcome,
                   touched, noNew, fetched, request, steps, ans, printed, _tries, _delay,
                   attempts, params, DBKEYS, main_dbkeys, requested, flow_files, wq_file,
                   wq_syncs, wq_earlier, slept, stats, netflows>>

\* get_all line 135-146: a conversion raises, LO_Stage.csv is not rewritten
LOkeeConvertFails ==
    /\ pc = "lokee"
    /\ lokee' = [read |-> TRUE, lo |-> files["LO_Stage"], lo2 |-> files["LO_Stage_2"]]
    /\ BothExist
    /\ Comparable(files["LO_Stage"], files["LO_Stage_2"])
    /\ missing_dates(files["LO_Stage"], files["LO_Stage_2"]) # {}
    /\ convert_failure' = TRUE
    /\ pc' = "return"
    /\ UNCHANGED <<module, d, cur, df_new, failedAt, prev, run, i, files, temp,
                   date_latest, failed_downloads, missing_files, result, pre, runStart,
                   outcome, touched, noNew, fetched, request, steps, ans, printed,
                   _tries, _delay, attempts, params, DBKEYS, main_dbkeys, requested,
                   flow_files, wq_file, wq_syncs, wq_earlier, slept, stats, netflows>>

\* get_all line 160-163: one of the two files is missing
LOkeeMissing ==
    /\ pc = "lokee"
    /\ lokee' = [read |-> FALSE, lo |-> files["LO_Stage"], lo2 |-> files["LO_Stage_2"]]
    /\ ~BothExist
    /\ convert_failure' = TRUE
    /\ pc' = "return"
    /\ UNCHANGED <<module, d, cur, df_new, failedAt, prev, run, i, files, temp,
                   date_latest, failed_downloads, missing_files, result, pre, runStart,
                   outcome, touched, noNew, fetched, request, steps, ans, printed,
                   _tries, _delay, attempts, params, DBKEYS, main_dbkeys, requested,
                   flow_files, wq_file, wq_syncs, wq_earlier, slept, stats, netflows>>

\* get_all line 108-130: the station lookup or the comparison of the frames
\* raises; nothing catches it
LOkeeRaises ==
    /\ pc = "lokee"
    /\ BothExist
    /\ pc' = "raised"
    /\ UNCHANGED <<module, d, cur, df_new, failedAt, prev, run, i, files, temp,
                   date_latest, failed_downloads, missing_files, convert_failure, result,
                   pre, runStart, outcome, touched, noNew, fetched, request, steps, ans,
                   printed, _tries, _delay, attempts, params, DBKEYS, main_dbkeys,
                   requested, flow_files, lokee, wq_file, wq_syncs, wq_earlier, slept,
                   stats, netflows>>

\* ------------------------------------------------------------------ return
\* variant of IsError that looks at the conversion failure only
IsErrorConvOnly(m, missing, failed, conv) == conv

\* whether main returns an error (get_all line 165, get_lake_wq line 210,
\* get_outflows line 29: missing is then the dbkeys left in the list)
IsError(m, missing, failed, conv) ==
    IF m = "get_all" THEN missing # <<>> \/ conv
    ELSE missing # <<>> \/ failed # <<>>

\* the returned dict: its key, the file names its text lists, and whether the
\* text reports the conversion failure
main_result(m, missing, failed, conv) ==
    IF IsError(m, missing, failed, conv)
    THEN [kind |-> "error", names |-> Range(missing) \cup Range(failed),
          convert |-> (m = "get_all" /\ conv)]
    ELSE [kind |-> "success", names |-> {}, convert |-> FALSE]

Return ==
    /\ pc = "return"
    /\ result' = main_result(module, missing_files, failed_downloads, convert_failure)
    /\ pc' = "done"
    /\ UNCHANGED <<module, d, cur, df_new, failedAt, prev, run, i, files, temp,
                   date_latest, failed_downloads, missing_files, convert_failure, pre,
                   runStart, outcome, touched, noNew, fetched, request, steps, ans,
                   printed, _tries, _delay, attempts, params, DBKEYS, main_dbkeys,
                   requested, flow_files, lokee, wq_file, wq_syncs, wq_earlier, slept,
                   stats, netflows>>

\* main is called again on the same workspace
NewRun ==
    /\ pc \in {"done", "raised"}
    /\ run < MaxRuns
    /\ run' = run + 1
    /\ pc' = StartPc(module)
    /\ i' = 1
    /\ date_latest' = [n \in AllNames |-> None]
    /\ failed_downloads' = <<>>
    /\ missing_files' = <<>>
    /\ convert_failure' = FALSE
    /\ result' = NoResult
    /\ cur' = ""
    /\ pre' = Missing
    /\ runStart' = files
    /\ outcome' = [n \in AllNames |-> "none"]
    /\ touched' = [n \in AllNames |-> FALSE]
    /\ df_new' = <<>>
    /\ failedAt' = "none"
    /\ prev' = [pc |-> pc, convert_failure |-> convert_failure]
    /\ noNew' = TRUE
    /\ fetched' = "none"
    /\ request' = NoRequest
    /\ steps' = <<>>
    /\ ans' = <<>>
    /\ printed' = [n \in AllNames |-> {}]
    /\ _tries' = tries
    /\ _delay' = delay
    /\ slept' = <<>>
    /\ attempts' = 0
    /\ lokee' = NoLOkee
    /\ main_dbkeys' = IF ByDefault THEN DBKEYS ELSE d
    /\ requested' = IF ByDefault /\ module = "get_outflows" THEN DBKEYS ELSE d
    /\ UNCHANGED <<module, d, files, temp, params, DBKEYS, flow_files, wq_file, wq_syncs,
                   wq_earlier, stats, netflows>>

\* -------------------------------------------------------------- outflows
\* flow_data/hydro.get on a response: the file named with the dbkey that it
\* leaves, given the one that was there (a response without data writes nothing)
flow_get(resp, old) == IF resp = {} THEN old ELSE CsvFile(SortByDate(resp), TRUE)

\* the request of get_outflows.main: from "2000-01-01" to the default date_max
OutflowRequest == [date_min |-> 1, date_max |-> DATE_NOW]

\* list.remove(x): the list without its first occurrence of x
RECURSIVE remove(_, _)
remove(l, x) ==
    IF l = <<>> THEN <<>>
    ELSE IF Head(l) = x THEN Tail(l)
    ELSE <<Head(l)>> \o remove(Tail(l), x)

\* head of the download loop (get_outflows line 12)
OutLoopNext ==
    /\ pc = "oloop"
    /\ i <= Len(main_dbkeys)
    /\ cur' = main_dbkeys[i]
    /\ fetched' = "none"
    /\ request' = NoRequest
    /\ _tries' = tries
    /\ _delay' = delay
    /\ slept' = <<>>
    /\ attempts' = 0
    /\ pc' = "oget"
    /\ UNCHANGED <<module, d, df_new, failedAt, prev, run, i, files, temp, date_latest,
                   failed_downloads, missing_files, convert_failure, result, pre,
                   runStart, outcome, touched, noNew, steps, ans, printed, params,
                   DBKEYS, main_dbkeys, requested, flow_files, lokee, wq_file, wq_syncs,
                   wq_earlier, stats, netflows>>

\* hydro.get(workspace, dbkey, "2000-01-01") returns (get_outflows line 13)
OutflowGet ==
    /\ pc = "oget"
    /\ _tries >= 1
    /\ attempts' = attempts + 1
    /\ \E resp \in Responses :
        /\ flow_files' = [flow_files EXCEPT ![cur] = flow_get(resp, @)]
        /\ touched' = [touched EXCEPT ![cur] = @ \/ resp # {}]
        /\ noNew' = (noNew /\ resp = {})
        /\ fetched' = Fetched(resp)
    /\ request' = OutflowRequest
    /\ i' = i + 1
    /\ pc' = "oloop"
    /\ UNCHANGED <<module, d, cur, df_new, failedAt, prev, run, files, temp, date_latest,
                   failed_downloads, missing_files, convert_failure, result, pre,
                   runStart, outcome, steps, ans, printed, _tries, _delay, params,
                   DBKEYS, main_dbkeys, requested, lokee, wq_file, wq_syncs, wq_earlier,
                   slept, stats, netflows>>

\* the get raises after its retries, with or without a cut-short file; the
\* exception leaves main
OutflowGetRaises ==
    /\ pc = "oget"
    /\ _tries = 1
    /\ _tries' = tries_left(_tries)
    /\ attempts' = attempts + 1
    /\ \E left \in {flow_files[cur], PartialFile} :
        flow_files' = [flow_files EXCEPT ![cur] = left]
    /\ failedAt' = "oget"
    /\ request' = OutflowRequest
    /\ noNew' = FALSE
    /\ pc' = "raised"
    /\ UNCHANGED <<module, d, cur, df_new, prev, run, i, files, temp, date_latest,
                   failed_downloads, missing_files, convert_failure, result, pre,
                   runStart, outcome, touched, fetched, steps, ans, printed, _delay,
                   params, DBKEYS, main_dbkeys, requested, lokee, wq_file, wq_syncs,
                   wq_earlier, slept, stats, netflows>>

\* the dbkeys of the list whose file named with the dbkey is in the workspace
Downloaded(l, ff) == {k \in Range(l) : ff[k].exists}

\* the list after the remove of every dbkey of S, one at a time
RECURSIVE remove_all(_, _)
remove_all(l, S) ==
    IF S = {} THEN l
    ELSE LET k == CHOOSE x \in S : TRUE
         IN  remove_all(remove(l, k), S \ {k})

\* the loop over the globbed flow files (get_outflows line 16-27): each file
\* named with a dbkey of the list is renamed to the name without the dbkey, and
\* the dbkey is removed from the list, which is DBKEYS itself when main was
\* called without dbkeys
RenameDownloaded ==
    /\ pc = "oloop"
    /\ i > Len(main_dbkeys)
    /\ LET S == Downloaded(main_dbkeys, flow_files)
       IN  /\ files' = [n \in DOMAIN files |-> IF n \in S THEN flow_files[n] ELSE files[n]]
           /\ flow_files' = [n \in DOMAIN flow_files |->
                                IF n \in S THEN Missing ELSE flow_files[n]]
           /\ main_dbkeys' = remove_all(main_dbkeys, S)
           /\ DBKEYS' = IF ByDefault THEN remove_all(main_dbkeys, S) ELSE DBKEYS
    /\ pc' = "oreturn"
    /\ UNCHANGED <<module, d, cur, df_new, failedAt, prev, run, i, temp, date_latest,
                   failed_downloads, missing_files, convert_failure, result, pre,
                   runStart, outcome, touched, noNew, fetched, request, steps, ans,
                   printed, _tries, _delay, attempts, params, requested, lokee, wq_file,
                   wq_syncs, wq_earlier, slept, stats, netflows>>

\* get_outflows line 29-32: an error when dbkeys are left in the list
OutflowReturn ==
    /\ pc = "oreturn"
    /\ result' = main_result(module, main_dbkeys, <<>>, FALSE)
    /\ pc' = "done"
    /\ UNCHANGED <<module, d, cur, df_new, failedAt, prev, run, i, files, temp,
                   date_latest, failed_downloads, missing_files, convert_failure, pre,
                   runStart, outcome, touched, noNew, fetched, request, steps, ans,
                   printed, _tries, _delay, attempts, params, DBKEYS, main_dbkeys,
                   requested, flow_files, lokee, wq_file, wq_syncs, wq_earlier, slept,
                   stats, netflows>>

\* one step of a call of get_outflows.main
OutflowStep ==
    \/ OutLoopNext
    \/ OutflowGet
    \/ OutflowGetRaises
    \/ RenameDownloaded
    \/ OutflowReturn

\* ------------------------------------------------------------- S65E_total
\* the request of S65E_total.get called with the workspace alone: its default
\* date_min and date_max ("1972-01-01", "2023-06-30")
S65ERequest == [date_min |-> 1, date_max |-> MaxDate]

\* S65E_total.get returns (S65E_total.py line 24-56)
S65EGet ==
    /\ pc = "sget"
    /\ _tries >= 1
    /\ attempts' = attempts + 1
    /\ \E s65e_s, s65ex1_s \in Responses :
        /\ files' = [files EXCEPT !["S65E_total"] = s65e_total_get(s65e_s, s65ex1_s, @)]
        /\ fetched' = IF s65e_s = {} \/ s65ex1_s = {} THEN "empty" ELSE "rows"
    /\ cur' = "S65E_total"
    /\ request' = S65ERequest
    /\ pc' = "sdone"
    /\ UNCHANGED <<module, d, df_new, failedAt, prev, run, i, temp, date_latest,
                   failed_downloads, missing_files, convert_failure, result, pre,
                   runStart, outcome, touched, noNew, steps, ans, printed, _tries,
                   _delay, params, DBKEYS, main_dbkeys, requested, flow_files, lokee,
                   wq_file, wq_syncs, wq_earlier, slept, stats, netflows>>

\* the get raises after its retries, with or without a cut-short file
S65EGetRaises ==
    /\ pc = "sget"
    /\ _tries = 1
    /\ _tries' = tries_left(_tries)
    /\ attempts' = attempts + 1
    /\ \E left \in {files["S65E_total"], PartialFile} :
        files' = [files EXCEPT !["S65E_total"] = left]
    /\ cur' = "S65E_total"
    /\ failedAt' = "sget"
    /\ request' = S65ERequest
    /\ pc' = "raised"
    /\ UNCHANGED <<module, d, df_new, prev, run, i, temp, date_latest, failed_downloads,
                   missing_files, convert_failure, result, pre, runStart, outcome,
                   touched, noNew, fetched, steps, ans, printed, _delay, params, DBKEYS,
                   main_dbkeys, requested, flow_files, lokee, wq_file, wq_syncs,
                   wq_earlier, slept, stats, netflows>>

S65EStep == S65EGet \/ S65EGetRaises

\* one step of a call of main
MainStep ==
    \/ ReadLatestDates
    \/ GetAttemptRaises
    \/ LoopNext
    \/ LoopExit
    \/ FullGet
    \/ FullGetRaises
    \/ Skip
    \/ NeedsDownload
    \/ CheckRaises
    \/ Rename
    \/ RenameRaises
    \/ IncrementalGet
    \/ IncrementalGetRaises
    \/ Merge
    \/ MergeRaises
    \/ RemoveTemp
    \/ RemoveTempRaises
    \/ Except
    \/ Exists
    \/ CheckMissing
    \/ LOkeeMerge
    \/ LOkeeConvertFails
    \/ LOkeeMissing
    \/ LOkeeRaises
    \/ Return

\* one call of main on a workspace
Spec == Init /\ [][MainStep]_vars

Next ==
    \/ MainStep
    \/ NewRun

\* an empty workspace
\* the three batch modules
Batch == Modules \cup {"get_outflows"}

\* a call of the main of any of the three modules
BatchStep == MainStep \/ OutflowStep

InitBatch == InitCall(Batch)

\* one call of a batch main on a workspace
SpecBatch == InitBatch /\ [][BatchStep]_vars

BatchNext == BatchStep \/ NewRun

\* calls of a batch main, one after the other in the same process, starting on
\* an empty workspace
InitBatchRuns ==
    /\ InitBatch
    /\ \A n \in Range(D(module)) : files[n] = Missing /\ flow_files[n] = Missing

SpecBatchRuns == InitBatchRuns /\ [][BatchNext]_vars

\* every get function of the DBHYDRO modules, called by its main or alone
GetsStep == BatchStep \/ S65EStep

InitGets == InitCall(Batch \cup {"S65E_total"})

SpecGets == InitGets /\ [][GetsStep]_vars

InitRuns ==
    /\ Init
    /\ \A n \in Range(D(module)) : files[n] = Missing

\* MaxRuns successive calls of main on a workspace that starts empty
SpecRuns == InitRuns /\ [][Next]_vars

\* ------------------------------------- the columns of a water-quality file
\* the dates a water-quality sample can have, and the calendar they are on:
\* date 1 is the FirstDay-th day of a month of MonthLen days
WqDates == 1..WqMaxDate

\* Timestamp.day: the day of the month of a date
day(dt) == ((FirstDay + dt - 2) % MonthLen) + 1

\* what a water-quality query can hold for a station, after the daily average:
\* one value per day
WqResponses == SUBSET WqDates

RECURSIVE SortDates(_)
SortDates(S) ==
    IF S = {} THEN <<>>
    ELSE LET m == CHOOSE x \in S : \A y \in S : x <= y
         IN  <<m>> \o SortDates(S \ {m})

\* df['date'].min()
date_min_of_df(df) == CHOOSE m \in {df[k].date : k \in 1..Len(df)} :
                          \A k \in 1..Len(df) : m <= df[k].date

\* variant of _calculate_days_column that counts from the first date of the frame
_calculate_days_column_own(df, date_min) ==
    [k \in 1..Len(df) |->
        [df[k] EXCEPT !.days = (df[k].date - date_min_of_df(df)) + day(date_min_of_df(df))]]

\* wq._calculate_days_column (wq.py line 108-112)
_calculate_days_column(df, date_min) ==
    [k \in 1..Len(df) |-> [df[k] EXCEPT !.days = (df[k].date - date_min) + day(date_min)]]

\* reset_index and index + 1: the rows numbered from 1 (wq.py line 79-82,
\* get_lake_wq line 173-177)
reset_index(df) == [k \in 1..Len(df) |-> [df[k] EXCEPT !.index = k]]

\* wq.get on a response with data for the station: the rows of the file it
\* writes (wq.py line 71-91)
wq_rows(resp) ==
    LET dates == SortDates(resp)
        df == [k \in 1..Len(dates) |-> [index |-> 0, date |-> dates[k], days |-> 0]]
    IN  reset_index(_calculate_days_column(df, date_min_of_df(df)))

\* variant of wq_merged that keeps the index values the rows came with
wq_merged_keep_index(df_original, new) ==
    df_merged(df_original, _calculate_days_column(new, date_min_of_df(df_original)))

\* get_lake_wq line 163-181: the merged rows of the original file and the file
\* the incremental get wrote
wq_merged(df_original, new) ==
    reset_index(df_merged(df_original,
                          _calculate_days_column(new, date_min_of_df(df_original))))

\* first-time sync of a station (get_lake_wq line 134)
WqFirstSync ==
    /\ wq_file = <<>>
    /\ \E resp \in WqResponses \ {{}} : wq_file' = wq_rows(resp)
    /\ UNCHANGED <<module, d, cur, df_new, failedAt, prev, run, pc, i, files, temp,
                   date_latest, failed_downloads, missing_files, convert_failure, result,
                   pre, runStart, outcome, touched, noNew, fetched, request, steps, ans,
                   printed, _tries, _delay, attempts, params, DBKEYS, main_dbkeys,
                   requested, flow_files, lokee, wq_syncs, wq_earlier, slept, stats,
                   netflows>>

\* a successful incremental sync of the station (get_lake_wq line 151-187)
WqIncrementalSync ==
    /\ wq_file # <<>>
    /\ wq_syncs < WqMaxSyncs
    /\ wq_syncs' = wq_syncs + 1
    /\ \E resp \in WqResponses \ {{}} :
        /\ wq_file' = wq_merged(wq_file, wq_rows(resp))
        /\ wq_earlier' = (wq_earlier \/ \E dt \in resp : dt < date_min_of_df(wq_file))
    /\ UNCHANGED <<module, d, cur, df_new, failedAt, prev, run, pc, i, files, temp,
                   date_latest, failed_downloads, missing_files, convert_failure, result,
                   pre, runStart, outcome, touched, noNew, fetched, request, steps, ans,
                   printed, _tries, _delay, attempts, params, DBKEYS, main_dbkeys,
                   requested, flow_files, lokee, slept, stats, netflows>>

WqStep == WqFirstSync \/ WqIncrementalSync

\* the syncs of one station of get_lake_wq.main, its file followed column by column
InitWq ==
    /\ InitCall({"get_lake_wq"})
    /\ d = D(module)
    /\ \A n \in Range(D(module)) : files[n] = Missing

SpecWq == InitWq /\ [][WqStep]_vars

\* ------------------------------------------------ forecast statistics
\* the sub-daily flow_avg values (m^3/s) a forecast can hold
StatVals == (0 - 1)..StatMax

\* dataframe.clip(0) (get_forecast_flows line 235)
clip(x) == IF x < 0 THEN 0 ELSE x

RECURSIVE SumSeq(_)
SumSeq(q) == IF q = <<>> THEN 0 ELSE Head(q) + SumSeq(Tail(q))

\* _format_stats_DataFrame on the flow_avg values of one day (line 232-235,
\* 246-248, 261): m^3/s to m^3/h, negative values to 0, the sum of the day,
\* m^3/h to m^3/d. The frame that line 247 computes (every value divided by 8)
\* is not assigned, so the values are summed as they are.
flow_avg(values) ==
    LET hourly == [k \in 1..Len(values) |-> clip(values[k] * SECONDS_IN_HOUR)]
    IN  SumSeq(hourly) * HOURS_IN_DAY

FormatStats ==
    /\ ~stats.formatted
    /\ stats' = [stats EXCEPT !.formatted = TRUE, !.result = flow_avg(stats.flow_avg)]
    /\ UNCHANGED <<module, d, cur, df_new, failedAt, prev, run, pc, i, files, temp,
                   date_latest, failed_downloads, missing_files, convert_failure, result,
                   pre, runStart, outcome, touched, noNew, fetched, request, steps, ans,
                   printed, _tries, _delay, attempts, params, DBKEYS, main_dbkeys,
                   requested, flow_files, lokee, wq_file, wq_syncs, wq_earlier, slept,
                   netflows>>

\* the statistics of a forecast of a day, formatted: a day has SubDaily values,
\* the first day of a forecast may have fewer
InitStats ==
    /\ Idle
    /\ NoWqFile
    /\ NoNetflows
    /\ \E n \in {SubDaily \div 2, SubDaily} :
          stats \in [flow_avg : [1..n -> StatVals], formatted : {FALSE}, result : {0}]

SpecStats == InitStats /\ [][FormatStats]_vars

\* ------------------------------------------------------ GEOGLOWS netflows
\* the first reaches of INFLOW_IDS (GEOGLOWS_NETFLOWS line 18-22)
INFLOW_IDS == <<750059718, 750043742>>

\* a string is the sequence of its characters
Digit(n) == <<"0", "1", "2", "3", "4", "5", "6", "7", "8", "9">>[n + 1]

\* str(n) of an ensemble number, and the number with two digits as the column
\* names have it
str(n) == IF n < 10 THEN <<Digit(n)>> ELSE <<Digit(n \div 10), Digit(n % 10)>>

TwoDigits(n) == <<Digit(n \div 10), Digit(n % 10)>>

\* the column of an ensemble in an inflow file, as ensembles_to_csv names the
\* columns of a forecast file (get_forecast_flows line 197-201)
EnsembleColumn(n) == <<"e", "n", "s", "e", "m", "b", "l", "e", "_">> \o TwoDigits(n) \o <<"_", "m", "^", "3", "/", "d">>

\* the columns of the forecast statistics (get_forecast_flows line 268-272)
StatsColumns ==
    <<<<"f", "l", "o", "w", "_", "m", "a", "x", "_", "m", "^", "3", "/", "d">>,
      <<"f", "l", "o", "w", "_", "7", "5", "%", "_", "m", "^", "3", "/", "d">>,
      <<"f", "l", "o", "w", "_", "a", "v", "g", "_", "m", "^", "3", "/", "d">>,
      <<"f", "l", "o", "w", "_", "2", "5", "%", "_", "m", "^", "3", "/", "d">>,
      <<"f", "l", "o", "w", "_", "m", "i", "n", "_", "m", "^", "3", "/", "d">>>>

\* the columns of an inflow file, after the date: the ensembles 1 to 51, then
\* the statistics when the file has them
Columns(with_stats) ==
    [n \in 1..NumEnsembles |-> EnsembleColumn(n)] \o (IF with_stats THEN StatsColumns ELSE <<>>)

\* Python's "sub in s" on strings
Contains(sub, t) ==
    \E k \in 1..(Len(t) - Len(sub) + 1) : SubSeq(t, k, k + Len(sub) - 1) = sub

\* line 35-37: every column whose name contains str(ensemble_number) is assigned
\* to the reach in turn, so the last of them stays
column_of(ensemble_number, columns) ==
    CHOOSE c \in 1..Len(columns) :
        /\ Contains(ensemble_number, columns[c])
        /\ \A c2 \in (c + 1)..Len(columns) : ~Contains(ensemble_number, columns[c2])

\* the value of a column of the inflow file of a reach on the date: each
\* column of a file has its own value
Flow(base, r, c) == base[r] * 100 + c

\* line 40: the sum over the reaches of the column taken for each
Netflows(ensemble_number, with_stats, base) ==
    SumSeq([r \in 1..Len(INFLOW_IDS) |->
               Flow(base, r, column_of(ensemble_number, Columns(with_stats)))])

\* line 42: / 1233.48, as a fraction
acft(x) == [num |-> x * 100, den |-> 123348]

\* GEOGLOWS_NETFLOWS.main (line 24-43)
NetflowsMain ==
    /\ ~netflows.written
    /\ netflows' = [netflows EXCEPT
                       !.written = TRUE,
                       !.Netflows = acft(Netflows(netflows.ensemble_number,
                                                  netflows.with_stats, netflows.base))]
    /\ UNCHANGED <<module, d, cur, df_new, failedAt, prev, run, pc, i, files, temp,
                   date_latest, failed_downloads, missing_files, convert_failure, result,
                   pre, runStart, outcome, touched, noNew, fetched, request, steps, ans,
                   printed, _tries, _delay, attempts, params, DBKEYS, main_dbkeys,
                   requested, flow_files, lokee, wq_file, wq_syncs, wq_earlier, slept,
                   stats>>

\* main is called for an ensemble number from 1 to 51, given as str(n) or with
\* two digits, on inflow files with or without the statistics columns
InitNetflows ==
    /\ Idle
    /\ NoWqFile
    /\ NoStats
    /\ \E n \in 1..NumEnsembles :
          netflows \in [ensemble_number : {str(n), TwoDigits(n)},
                        with_stats : BOOLEAN,
                        base : [1..Len(INFLOW_IDS) -> 1..MaxBase],
                        written : {FALSE},
                        Netflows : {0}]

SpecNetflows == InitNetflows /\ [][NetflowsMain]_vars

\* ------------------------------------------------------------------ claims
\* the sync of cur has ended
SyncEnded == cur # "" /\ outcome[cur] # "none"

\* the "L OKEE" step of get_all.main has not rewritten LO_Stage.csv
BeforePost == pc \notin {"return", "done"}

\* C1: when an incremental sync fails after the rename, the dataset file is
\* back under its original name with its pre-sync content, and the dataset is
\* in failed_downloads.
C1_Restoration ==
    (SyncEnded /\ outcome[cur] = "failed" /\ BeforePost) =>
        /\ files[cur].exists
        /\ files[cur] = pre
        /\ cur \in Range(failed_downloads)

C1_Witness ==
    /\ SyncEnded /\ outcome[cur] = "failed" /\ failedAt = "merge"
    /\ pre.rows # <<>> /\ files[cur] = pre

FetchIsLater == \A k \in 1..Len(df_new) : df_new[k].date > LatestDate(pre)

C3_NeverPartialOrMissing ==
    (SyncEnded /\ BeforePost) =>
        /\ ~files[cur].partial
        /\ pre.exists => files[cur].exists
        /\ files[cur] = pre \/ outcome[cur] \in {"created", "updated"}

\* C4: when main returns, every dataset whose update failed or whose file is
\* missing is named in an error result, and a success result means no dataset
\* failed and none is missing.
C4_FailuresReported ==
    pc = "done" =>
        /\ \A n \in Names :
              (n \in Range(failed_downloads) \/ ~files[n].exists) =>
                  result.kind = "error" /\ n \in result.names
        /\ result.kind = "success" =>
              failed_downloads = <<>> /\ \A n \in Names : files[n].exists

\* C5: no failure of a dataset's sync makes main raise and leave the rest of
\* the batch unprocessed.
C5_BatchNotAborted == ~(pc = "raised" /\ SyncEnded /\ outcome[cur] = "raised")

C7_SkippedNeverTouched ==
    \A n \in AllNames : outcome[n] = "skipped" => ~touched[n]

\* C7 amended: a dataset found up to date is not reported as failed or
\* missing and no write, rename or delete is done on its file, except that the
\* "L OKEE" step of get_all.main rewrites LO_Stage.csv afterwards.
C7_SkippedUntouchedBySync ==
    \A n \in AllNames : outcome[n] = "skipped" =>
        /\ n \notin Range(failed_downloads) \cup Range(missing_files)
        /\ touched[n] => (module = "get_all" /\ n = "LO_Stage" /\ ~BeforePost)
        /\ ~touched[n] => files[n] = runStart[n]

C7_Witness ==
    /\ pc = "done" /\ module = "get_all"
    /\ outcome["LO_Stage"] = "skipped" /\ touched["LO_Stage"]
    /\ outcome["LO_Stage_2"] = "skipped" /\ ~touched["LO_Stage_2"]

FirstRunConverted ==
    module = "get_lake_wq" \/ (prev.pc = "done" /\ ~prev.convert_failure)

DateComesAgain(k) == df_new[k].date \in DatesOf(pre.rows)

C10_LatestNeverDecreases ==
    /\ SyncEnded => LatestDate(files[cur]) >= LatestDate(pre)
    /\ pc \in {"done", "raised"} =>
          \A n \in AllNames : LatestDate(files[n]) >= LatestDate(runStart[n])

C10_Witness ==
    /\ run > 1 /\ SyncEnded /\ outcome[cur] = "updated"
    /\ LatestDate(pre) > None
    /\ LatestDate(files[cur]) > LatestDate(pre)

\* the sync of cur went down the incremental path: its file had a latest date
Incremental == cur # "" /\ steps # <<>> /\ steps[1] = "check"

\* C11: when the incremental fetch yields no rows the sync is a failed update:
\* the file is as it was before the sync, the dataset is in failed_downloads,
\* and the result main returns is an error that names it.
C11_EmptyFetchIsFailure ==
    (SyncEnded /\ Incremental /\ fetched = "empty") =>
        /\ outcome[cur] = "failed"
        /\ cur \in Range(failed_downloads)
        /\ BeforePost => files[cur] = pre
        /\ pc = "done" => (result.kind = "error" /\ cur \in result.names)

\* C12: when the latest known date of a dataset is None its sync is one full
\* fetch, from the dataset's first date through today, with no up-to-date
\* check, no rename and no merge; the rows fetched are the dataset's file.
C12_FirstTimeFullFetch ==
    (SyncEnded /\ date_latest[cur] = None) =>
        /\ \A k \in 1..Len(steps) : steps[k] = "full"
        /\ ans = <<>>
        /\ temp[cur] = Missing
        /\ request.date_min = date_min_of(cur)
        /\ request.date_max = DATE_NOW
        /\ (fetched = "rows" /\ BeforePost) =>
              /\ files[cur].exists /\ ~files[cur].partial
              /\ files[cur].rows # <<>>
              /\ StrictlyAscending(files[cur].rows)

C12_Witness ==
    /\ SyncEnded /\ cur = "LO_Stage_2" /\ outcome[cur] = "created"
    /\ date_latest[cur] = None /\ fetched = "rows"
    /\ request = [date_min |-> 2, date_max |-> MaxDate]
    /\ Len(files[cur].rows) = MaxFetch

\* C13: the incremental get is asked for the dates from the day after the
\* latest known date through today, so for no date up to the latest known one.
C13_IncrementalRequest ==
    (Incremental /\ request # NoRequest) =>
        /\ request.date_min = date_latest[cur] + 1
        /\ request.date_max = DATE_NOW
        /\ request.date_min > date_latest[cur]

C13_Witness ==
    /\ Incremental /\ module = "get_lake_wq" /\ fetched = "rows"
    /\ date_latest[cur] = 1 /\ request.date_min = 2

\* C20: a water-level dataset with several dbkeys is skipped exactly when the
\* up-to-date check holds for every dbkey; one dbkey with newer data sends
\* the dataset to the rename and the download.
C20_SkipIffEveryDbkeyLatest ==
    (/\ Incremental /\ module = "get_all"
     /\ \A k \in 1..Len(ans) : ans[k] # "raises") =>
        /\ outcome[cur] = "skipped" <=> \A k \in 1..Len(ans) : ans[k] = "latest"
        /\ (\E k \in 1..Len(ans) : ans[k] = "newer") =>
              /\ (steps = <<"check">> /\ outcome[cur] = "none") => pc = "rename"
              /\ outcome[cur] \in {"none", "updated", "failed", "raised"}

C20_Witness ==
    /\ module = "get_all" /\ cur = "LO_Stage"
    /\ ans = <<"latest", "newer">> /\ pc = "rename"

\* C17: when the sync of a dataset ends, by the committed update or by the
\* rollback after a failure, no file is left under the temporary name; none is
\* left when main ends either.
C17_NoTempLeft ==
    /\ SyncEnded => temp[cur] = Missing
    /\ pc \in {"lokee", "missing", "return", "done", "raised"} =>
          \A n \in AllNames : temp[n] = Missing

C17_Witness ==
    /\ SyncEnded /\ outcome[cur] = "failed" /\ failedAt = "remove"
    /\ steps = <<"check", "rename", "fetch", "merge", "restore">>
    /\ temp[cur] = Missing /\ files[cur] = pre

OrderedSteps == <<"check", "rename", "fetch", "merge", "remove">>

IsPrefix(a, b) == Len(a) <= Len(b) /\ SubSeq(b, 1, Len(a)) = a

\* C19: the steps of an incremental sync come in the order rename, fetch,
\* merge, remove (a rollback may cut them short after the rename); while the
\* sync runs the original content is held by the temporary file or by the
\* target file; the temporary file is gone only after the merged file is
\* written or the original is back under its name.
C19_OrderAndOriginalKept ==
    Incremental =>
        /\ \/ IsPrefix(steps, OrderedSteps)
           \/ /\ steps[Len(steps)] = "restore"
              /\ Len(steps) >= 3
              /\ IsPrefix(SubSeq(steps, 1, Len(steps) - 1), OrderedSteps)
        /\ outcome[cur] = "none" => (files[cur] = pre \/ temp[cur] = pre)
        /\ (outcome[cur] = "none" /\ Len(steps) >= 2) => temp[cur] = pre
        /\ (Len(steps) >= 2 /\ temp[cur] = Missing /\ BeforePost) =>
              \/ steps[Len(steps)] = "restore" /\ files[cur] = pre
              \/ /\ steps = OrderedSteps
                 /\ files[cur].rows = pre.rows \o df_new
                 /\ ~files[cur].partial

C19_Witness ==
    /\ Incremental /\ pc = "remove" /\ outcome[cur] = "none"
    /\ steps = <<"check", "rename", "fetch", "merge">>
    /\ temp[cur] = pre /\ pre.rows # <<>> /\ df_new # <<>>
    /\ files[cur].rows = pre.rows \o df_new

\* C16: every dataset whose sync ended has one outcome and what main prints
\* about it agrees with it: a skipped dataset is printed as skipped, a failed
\* update as an error and never as downloaded successfully, a dataset that got
\* no file as could not be downloaded.
C16_OutcomeIsReported ==
    \A n \in AllNames : outcome[n] \notin {"none", "raised"} =>
        /\ outcome[n] \in {"created", "skipped", "updated", "failed", "nodata"}
        /\ outcome[n] = "skipped" => printed[n] = {"skipped"}
        /\ outcome[n] = "failed" => "error" \in printed[n]
        /\ outcome[n] = "failed" => "downloaded" \notin printed[n]
        /\ (outcome[n] = "nodata" /\ pc = "done") => "missing" \in printed[n]

\* the get called for cur raised to main
GetRaised == failedAt = "full" \/ (failedAt = "fetch" /\ fetched = "none")

\* C18: a call of a get makes at most 5 attempts; it returns with the first
\* attempt that does not raise, and it raises to its caller only when the 5th
\* attempt raised. The delay between attempts never exceeds max_delay.
C18_BoundedRetry ==
    /\ attempts \in 0..tries
    /\ _tries \in 0..tries
    /\ _delay <= max_delay
    /\ pc \in {"full", "fetch"} => (attempts = tries - _tries /\ _tries >= 1)
    /\ fetched # "none" => (attempts = tries - _tries + 1 /\ attempts >= 1)
    /\ GetRaised => (attempts = tries /\ _tries = 0)

C18_Witness ==
    /\ GetRaised /\ outcome[cur] = "raised" /\ attempts = 5 /\ _delay = 60

\* C14: a call of a batch main leaves the module-level configuration it
\* iterates over (get_all.D, get_outflows.DBKEYS, get_lake_wq.D) as it was, so
\* a later call with default arguments is asked for the same datasets
C14_ConfigurationUnchanged ==
    /\ DBKEYS = OUT_D
    /\ \A n \in DOMAIN params : params[n] = None
    /\ (run > 1 /\ ByDefault) => requested = D(module)

\* C15: a batch main that completes returns exactly one of "success" and
\* "error", and "success" only if the file of every dataset it was asked for
\* exists in the workspace when it returns
C15_SuccessMeansFilesExist ==
    pc = "done" =>
        /\ result.kind \in {"success", "error"}
        /\ result.kind = "success" => \A n \in Range(requested) : files[n].exists

\* a call for two datasets has returned "success"
C15_Witness ==
    /\ pc = "done"
    /\ result.kind = "success"
    /\ Len(requested) = 2

\* C21: the "L OKEE" step changes a stage value of LO_Stage.csv only on a date
\* of both files where LO_Stage has no value and LO_Stage_2 has one; it adds
\* and removes no row and leaves LO_Stage_2.csv as it was
C21_FillsOnlyMissing ==
    (lokee.read /\ pc \in {"return", "done"}) =>
        LET old == lokee.lo.rows
            new == files["LO_Stage"].rows
        IN  /\ Len(new) = Len(old)
            /\ \A k \in 1..Len(old) :
                  /\ new[k].date = old[k].date
                  /\ new[k].val # old[k].val =>
                        /\ old[k].val = NaN
                        /\ old[k].date \in DatesOf(lokee.lo2.rows)
                        /\ ValueAt(lokee.lo2.rows, old[k].date) # NaN
            /\ files["LO_Stage_2"] = lokee.lo2

\* the step has filled a value of one date and kept the value LO_Stage had on
\* another date of both files, where the converted LO_Stage_2 value is another
C21_Witness ==
    /\ lokee.read /\ pc = "return"
    /\ \E k \in 1..Len(lokee.lo.rows) : files["LO_Stage"].rows[k].val # lokee.lo.rows[k].val
    /\ \E k \in 1..Len(lokee.lo.rows) :
          /\ lokee.lo.rows[k].val # NaN
          /\ lokee.lo.rows[k].date \in DatesOf(lokee.lo2.rows)
          /\ ValueAt(lokee.lo2.rows, lokee.lo.rows[k].date) # NaN
          /\ _convert_navd88_to_ngvd29(ValueAt(lokee.lo2.rows, lokee.lo.rows[k].date))
                # lokee.lo.rows[k].val

\* C22: when a conversion fails, or one of the two stage files is missing,
\* LO_Stage.csv is not rewritten and main returns an error that reports the
\* conversion failure
C22_ConversionAllOrNothing ==
    /\ convert_failure => files["LO_Stage"] = lokee.lo
    /\ (convert_failure /\ ~lokee.read) => ~(lokee.lo.exists /\ lokee.lo2.exists)
    /\ (convert_failure /\ pc = "done") => (result.kind = "error" /\ result.convert)
    /\ (pc = "done" /\ module = "get_all" /\ ~lokee.read) => convert_failure

\* a conversion failed with two dates to fill, and main has returned
C22_Witness ==
    /\ pc = "done" /\ convert_failure /\ lokee.read
    /\ Cardinality(missing_dates(lokee.lo, lokee.lo2)) >= 2

\* the days value the row of a file should have: the days from the earliest
\* date of the file, plus the day of the month of that date
DaysOk(df) ==
    \A k \in 1..Len(df) :
        df[k].days = (df[k].date - date_min_of_df(df)) + day(date_min_of_df(df))

C24_IndexRuns == \A k \in 1..Len(wq_file) : wq_file[k].index = k

\* two incremental syncs have been merged into the file
C24_Witness == wq_syncs = 2 /\ Len(wq_file) >= 3

\* a get of the water-quality, flow or S65E_total module has just returned
\* from a response without rows
EmptyGet == module # "get_all" /\ fetched = "none" /\ fetched' = "empty"

\* C25: a get that fetched no rows (wq.get, flow hydro.get, S65E_total.get with
\* either series empty) creates, modifies and removes no file of the workspace
C25_EmptyFetchWritesNothing ==
    [][EmptyGet => (files' = files /\ temp' = temp /\ flow_files' = flow_files)]_vars

\* S65E_total.get has returned from an empty series and the file that was
\* there is still there
C25_Witness ==
    /\ module = "S65E_total" /\ pc = "sdone" /\ fetched = "empty"
    /\ files["S65E_total"].exists

\* C26: get_outflows.main returns "success" exactly when a flow file was
\* downloaded for every requested dbkey, and otherwise an error that lists
\* exactly the requested dbkeys for which none was
C26_SuccessIffAllDownloaded ==
    (module = "get_outflows" /\ pc = "done") =>
        /\ result.kind = "success" <=> \A k \in Range(requested) : touched[k]
        /\ result.kind = "error" => result.names = {k \in Range(requested) : ~touched[k]}

\* C27: the waits between the 5 attempts of a get are 15, 30, 60 and 60
\* seconds: each twice the one before, but never more than 60
C27_Waits == IsPrefix(slept, <<15, 30, 60, 60>>)

\* the get of a flow dbkey has slept four times and its 5th attempt returned
C27_Witness == module = "get_outflows" /\ Len(slept) = 4 /\ fetched = "rows"

\* C28: the daily flow_avg is the sum of the day's values, each converted to
\* m^3/h and weighted by 1/8, converted to m^3/d; a day of 8 equal values v
\* gives v in m^3/d
C28_WeightedAverage ==
    stats.formatted =>
        /\ SubDaily * stats.result =
              SumSeq([k \in 1..Len(stats.flow_avg) |->
                         clip(stats.flow_avg[k] * SECONDS_IN_HOUR)]) * HOURS_IN_DAY
        /\ \A v \in StatVals :
              stats.flow_avg = [k \in 1..SubDaily |-> v] =>
                  stats.result = clip(v) * SECONDS_IN_HOUR * HOURS_IN_DAY

\* the ensemble number main was called for
Requested ==
    CHOOSE n \in 1..NumEnsembles : netflows.ensemble_number \in {str(n), TwoDigits(n)}

\* C29: for each reach main takes the column of exactly the requested
\* ensemble, and Netflows is the sum over the reaches of that ensemble's flow
\* divided by 1233.48, for every ensemble number from 1 to 51
C29_RequestedEnsemble ==
    netflows.written =>
        netflows.Netflows =
            acft(SumSeq([r \in 1..Len(INFLOW_IDS) |-> Flow(netflows.base, r, Requested)]))

====
